---- MODULE Spec2Model ----
(***************************************************************************)
(* Model of chipsec/modules/common/smm_code_chk.py: the smm_code_chk       *)
(* module reads MSR_SMM_FEATURE_CONTROL on every CPU thread, classifies    *)
(* each thread from the LOCK and SMM_Code_Chk_En fields and reduces the    *)
(* per-thread results to one ModuleResult.                                 *)
(***************************************************************************)
EXTENDS Integers, Sequences, FiniteSets, TLC

\* Largest value cs.msr.get_cpu_thread_count() returns in the model.
MaxThreads == 3

\* Number of top-level calls (is_supported, check, framework run) in one behaviour.
MaxCalls == 3

\* Register values the platform may hold: bit 0 is LOCK, bit 2 is
\* SMM_Code_Chk_En, bit 1 is a bit the module does not look at. Every
\* combination of the two fields occurs, one of them also with bit 1 set.
RegValues == {0, 1, 4, 5, 7}

\* ModuleResult values the module uses.
PASSED == "PASSED"
FAILED == "FAILED"
WARNING == "WARNING"
ERROR == "ERROR"
NOTAPPLICABLE == "NOTAPPLICABLE"

Verdicts == {PASSED, FAILED, WARNING, ERROR, NOTAPPLICABLE}

\* "None": no value (Python None / attribute not set / no exception).
None == "None"

\* Exceptions that can leave check_SMM_Code_Chk_En.
HWAccessViolationError == "HWAccessViolationError"
IndexError == "IndexError"

\* Messages the module hands to the logger.
MsgStart == "start_test: SMM_Code_Chk_En (SMM Call-Out) Protection"
MsgNotSame == "failed_check: MSR_SMM_FEATURE_CONTROL does not have the same value across all CPUs"
MsgNotLocked == "failed_check: SMM_Code_Chk_En is enabled but not locked down"
MsgNotEnabled == "warn: SMM_Code_Chk_En is not enabled"
MsgLocked == "passed_check: SMM_Code_Chk_En is enabled and locked down"

VARIABLES
    nthreads,   \* what cs.msr.get_cpu_thread_count() returns
    msr,        \* msr[t]: value of MSR_SMM_FEATURE_CONTROL on thread t
    pc,         \* position: "idle", "supported", "loop", "compare"
    tid,        \* loop variable of check_SMM_Code_Chk_En
    results,    \* local list `results` of check_SMM_Code_Chk_En
    selfRes,    \* self.res
    ret,        \* value returned by the last check_SMM_Code_Chk_En call
    exc,        \* exception that left the last check_SMM_Code_Chk_En call
    log,        \* logger messages of the last check_SMM_Code_Chk_En call
    reads,      \* thread ids passed to read_register by the last call/run
    faults,     \* thread ids whose read raised in the last call/run
    probe,      \* outcome of the last is_supported read: "none", "ok", "fault"
    probes,     \* number of is_supported reads so far
    gateRet,    \* value returned by the last is_supported call
    resBefore,  \* self.res when the last is_supported call started
    caller,     \* who made the last top-level call: "none", "direct", "framework"
    overall,    \* result the framework holds for its last run
    calls,      \* number of top-level calls so far
    verdicts    \* values returned by the check_SMM_Code_Chk_En calls so far, in order

vars == <<nthreads, msr, pc, tid, results, selfRes, ret, exc, log, reads, faults,
          probe, probes, gateRet, resBefore, caller, overall, calls, verdicts>>

hw == <<nthreads, msr>>

----------------------------------------------------------------------------
\* cs.get_register_field('MSR_SMM_FEATURE_CONTROL', regval, field)
get_register_field(regval, field) ==
    IF field = "LOCK" THEN regval % 2 ELSE (regval \div 4) % 2

\* Mutant: the disabled, unlocked case is reported as a failure.
check_thread_warn_as_failed(regval) ==
    LET lock == get_register_field(regval, "LOCK")
        code_chk_en == get_register_field(regval, "SMM_Code_Chk_En")
    IN  IF 1 = code_chk_en
        THEN IF 1 = lock THEN PASSED ELSE FAILED
        ELSE IF 1 = lock THEN WARNING ELSE FAILED

\* Mutant: the enabled, unlocked case is reported as ERROR.
check_thread_failed_as_error(regval) ==
    LET lock == get_register_field(regval, "LOCK")
        code_chk_en == get_register_field(regval, "SMM_Code_Chk_En")
    IN  IF 1 = code_chk_en
        THEN IF 1 = lock THEN PASSED ELSE ERROR
        ELSE WARNING

\* _check_SMM_Code_Chk_En, the part after the register read.
_check_SMM_Code_Chk_En(regval) ==
    LET lock == get_register_field(regval, "LOCK")
        code_chk_en == get_register_field(regval, "SMM_Code_Chk_En")
    IN  IF 1 = code_chk_en
        THEN IF 1 = lock THEN PASSED ELSE FAILED
        ELSE WARNING

\* Mutant: the except branch returns False without recording NOTAPPLICABLE.
is_supported_no_record(ok) ==
    IF ok THEN [ret |-> TRUE, res |-> selfRes]
          ELSE [ret |-> FALSE, res |-> selfRes]

\* is_supported: ok is whether read_register succeeded.
is_supported(ok) ==
    IF ok THEN [ret |-> TRUE, res |-> selfRes]
          ELSE [ret |-> FALSE, res |-> NOTAPPLICABLE]

\* Mutant: any() in place of all().
unanimous_any == \E i \in 1..Len(results) : results[i] = results[1]

\* all(_ == results[0] for _ in results)
unanimous == \A i \in 1..Len(results) : results[i] = results[1]

\* Mutant: the loop stops as soon as two results disagree.
loop_done_early ==
    \/ tid >= nthreads
    \/ \E i \in 1..Len(results) : results[i] # results[1]

\* range(get_cpu_thread_count()) is exhausted
loop_done == tid >= nthreads

\* The message logged after the unanimity check, for res = results[0].
final_message(res) ==
    IF res = ERROR THEN MsgNotLocked
    ELSE IF res = WARNING THEN MsgNotEnabled
    ELSE MsgLocked

\* Mutant: a unanimous FAILED is returned as ERROR.
check_result_failed_as_error ==
    IF ~unanimous THEN ERROR
    ELSE IF results[1] = FAILED THEN ERROR ELSE results[1]

\* Mutant: a result recorded in self.res by is_supported is returned.
check_result_sticky ==
    IF selfRes # None THEN selfRes
    ELSE IF ~unanimous THEN ERROR ELSE results[1]

\* The value check_SMM_Code_Chk_En returns when results is not empty.
check_result == IF ~unanimous THEN ERROR ELSE results[1]

----------------------------------------------------------------------------
Init ==
    /\ nthreads \in 0..MaxThreads
    /\ msr \in [0..(MaxThreads - 1) -> RegValues]
    /\ \A t \in 0..(MaxThreads - 1) : t >= nthreads => msr[t] = 0
    /\ pc = "idle"
    /\ tid = 0
    /\ results = <<>>
    /\ selfRes = None
    /\ ret = None
    /\ exc = None
    /\ log = <<>>
    /\ reads = <<>>
    /\ faults = <<>>
    /\ probe = "none"
    /\ probes = 0
    /\ gateRet = None
    /\ resBefore = None
    /\ caller = "none"
    /\ overall = None
    /\ calls = 0
    /\ verdicts = <<>>

\* Entry of check_SMM_Code_Chk_En: start_test and results = [].
check_begin ==
    /\ log' = <<MsgStart>>
    /\ results' = <<>>
    /\ tid' = 0
    /\ reads' = <<>>
    /\ faults' = <<>>
    /\ ret' = None
    /\ exc' = None
    /\ pc' = "loop"

\* A direct call of is_supported().
IsSupported ==
    /\ pc = "idle"
    /\ calls < MaxCalls
    /\ \E ok \in BOOLEAN :
          /\ probe' = (IF ok THEN "ok" ELSE "fault")
          /\ gateRet' = is_supported(ok).ret
          /\ selfRes' = is_supported(ok).res
          /\ resBefore' = selfRes
    /\ probes' = probes + 1
    /\ calls' = calls + 1
    /\ caller' = "direct"
    /\ UNCHANGED <<hw, pc, tid, results, ret, exc, log, reads, faults, overall, verdicts>>

\* A direct call of check_SMM_Code_Chk_En().
CheckDirect ==
    /\ pc = "idle"
    /\ calls < MaxCalls
    /\ check_begin
    /\ calls' = calls + 1
    /\ caller' = "direct"
    /\ UNCHANGED <<hw, selfRes, probe, probes, gateRet, resBefore, overall, verdicts>>

\* The framework starts a run of the module: it calls is_supported() and,
\* when that returns False, takes self.res as the result without calling run().
FrameworkStart ==
    /\ pc = "idle"
    /\ calls < MaxCalls
    /\ \E ok \in BOOLEAN :
          /\ probe' = (IF ok THEN "ok" ELSE "fault")
          /\ gateRet' = is_supported(ok).ret
          /\ selfRes' = is_supported(ok).res
          /\ resBefore' = selfRes
          /\ pc' = (IF is_supported(ok).ret THEN "supported" ELSE "idle")
          /\ overall' = (IF is_supported(ok).ret THEN None ELSE is_supported(ok).res)
    /\ probes' = probes + 1
    /\ calls' = calls + 1
    /\ caller' = "framework"
    /\ results' = <<>>
    /\ tid' = 0
    /\ reads' = <<>>
    /\ faults' = <<>>
    /\ log' = <<>>
    /\ ret' = None
    /\ exc' = None
    /\ UNCHANGED <<hw, verdicts>>

\* run(module_argv): return self.check_SMM_Code_Chk_En()
Run ==
    /\ pc = "supported"
    /\ check_begin
    /\ UNCHANGED <<hw, selfRes, probe, probes, gateRet, resBefore, caller, overall,
                   calls, verdicts>>

\* One loop iteration whose read_register succeeds.
EvalThreadOk ==
    /\ pc = "loop"
    /\ ~loop_done
    /\ reads' = Append(reads, tid)
    /\ results' = Append(results, _check_SMM_Code_Chk_En(msr[tid]))
    /\ tid' = tid + 1
    /\ UNCHANGED <<hw, pc, selfRes, ret, exc, log, faults, probe, probes, gateRet,
                   resBefore, caller, overall, calls, verdicts>>

\* Mutant: the exception is caught in the loop and recorded as a result.
EvalThreadFaultCaught ==
    /\ pc = "loop"
    /\ ~loop_done
    /\ reads' = Append(reads, tid)
    /\ results' = Append(results, NOTAPPLICABLE)
    /\ tid' = tid + 1
    /\ faults' = Append(faults, tid)
    /\ UNCHANGED <<hw, pc, selfRes, ret, exc, log, probe, probes, gateRet,
                   resBefore, caller, overall, calls, verdicts>>

\* One loop iteration whose read_register raises HWAccessViolationError:
\* nothing catches it, so it leaves check_SMM_Code_Chk_En and run.
EvalThreadFault ==
    /\ pc = "loop"
    /\ ~loop_done
    /\ reads' = Append(reads, tid)
    /\ faults' = Append(faults, tid)
    /\ exc' = HWAccessViolationError
    /\ pc' = "idle"
    /\ UNCHANGED <<hw, tid, results, selfRes, ret, log, probe, probes, gateRet,
                   resBefore, caller, overall, calls, verdicts>>

\* The loop ends.
LoopExit ==
    /\ pc = "loop"
    /\ loop_done
    /\ pc' = "compare"
    /\ UNCHANGED <<hw, tid, results, selfRes, ret, exc, log, reads, faults, probe, probes,
                   gateRet, resBefore, caller, overall, calls, verdicts>>

\* The unanimity check, the final message and the return. In a framework
\* run the framework keeps the returned value as the result of the run.
Compare ==
    /\ pc = "compare"
    /\ pc' = "idle"
    /\ IF Len(results) = 0
       THEN \* all() of nothing is True, then results[0] raises IndexError
            /\ exc' = IndexError
            /\ UNCHANGED <<ret, log, overall, verdicts>>
       ELSE /\ ret' = check_result
            /\ log' = Append(log, IF ~unanimous THEN MsgNotSame
                                  ELSE final_message(results[1]))
            /\ overall' = (IF caller = "framework" THEN check_result ELSE overall)
            /\ verdicts' = Append(verdicts, check_result)
            /\ UNCHANGED exc
    /\ UNCHANGED <<hw, tid, results, selfRes, reads, faults, probe, probes, gateRet,
                   resBefore, caller, calls>>

Next ==
    \/ IsSupported
    \/ CheckDirect
    \/ FrameworkStart
    \/ Run
    \/ EvalThreadOk
    \/ EvalThreadFault
    \/ LoopExit
    \/ Compare

Spec == Init /\ [][Next]_vars

----------------------------------------------------------------------------
\* A check_SMM_Code_Chk_En call has returned a value.
Returned == pc = "idle" /\ ret # None

\* LOCK and SMM_Code_Chk_En of the register of thread t.
LockOf(t) == get_register_field(msr[t], "LOCK")
EnOf(t) == get_register_field(msr[t], "SMM_Code_Chk_En")

\* C1: every per-thread result follows the decision table of the register
\* read on that thread: (en=1, lock=1) gives PASSED, (en=1, lock=0) gives
\* FAILED, en=0 gives WARNING for either lock, and never FAILED.
C1_DecisionTable ==
    \A i \in 1..Len(results) :
        /\ (EnOf(i - 1) = 1 /\ LockOf(i - 1) = 1 => results[i] = PASSED)
        /\ (EnOf(i - 1) = 1 /\ LockOf(i - 1) = 0 => results[i] = FAILED)
        /\ (EnOf(i - 1) = 0 /\ LockOf(i - 1) = 0 => results[i] = WARNING)
        /\ (EnOf(i - 1) = 0 /\ LockOf(i - 1) = 1 => results[i] = WARNING)
        /\ (EnOf(i - 1) = 0 => results[i] # FAILED)

C1_Witness ==
    /\ Len(results) = 3
    /\ results[1] = PASSED /\ results[2] = FAILED /\ results[3] = WARNING
    /\ LockOf(2) = 1

\* C2: when a call returns and all N >= 1 per-thread results are the same
\* verdict V of PASSED, FAILED, WARNING, the call returns exactly V.
C2_UnanimousReturnsV ==
    \A V \in {PASSED, FAILED, WARNING} :
        (/\ Returned
         /\ nthreads >= 1
         /\ Len(results) = nthreads
         /\ \A i \in 1..Len(results) : results[i] = V)
        => ret = V

C2_Witness ==
    /\ Returned
    /\ nthreads = 3
    /\ \A i \in 1..3 : results[i] = FAILED
    /\ ret = FAILED

\* C3: when a call returns with two or more threads and any two per-thread
\* results differ, it returns ERROR, whichever threads disagree.
C3_DisagreementIsError ==
    (/\ Returned
     /\ nthreads >= 2
     /\ \E i, j \in 1..Len(results) : results[i] # results[j])
    => ret = ERROR

\* thread 0 is the odd one out
C3_Witness ==
    /\ Returned
    /\ nthreads = 3
    /\ results[1] # results[2]
    /\ results[2] = results[3]
    /\ ret = ERROR

\* C4: in a framework run whose probe read raises HWAccessViolationError,
\* is_supported returned False and recorded NOTAPPLICABLE, the check was not
\* entered, no per-thread read was made and the overall result is
\* NOTAPPLICABLE; an is_supported call whose probe read succeeds returned
\* True and left self.res as it was.
C4_GateContract ==
    /\ (probe = "fault" => gateRet = FALSE /\ selfRes = NOTAPPLICABLE)
    /\ (probe = "fault" /\ caller = "framework" =>
            /\ pc = "idle"
            /\ overall = NOTAPPLICABLE
            /\ reads = <<>>
            /\ results = <<>>
            /\ log = <<>>
            /\ ret = None
            /\ exc = None)
    /\ (probe = "ok" => gateRet = TRUE /\ selfRes = resBefore)

C4_Witness ==
    /\ caller = "framework"
    /\ probe = "fault"
    /\ gateRet = FALSE
    /\ overall = NOTAPPLICABLE
    /\ nthreads = 2

\* C5: when a per-thread read raises HWAccessViolationError, the exception
\* leaves the call: nothing is returned, the framework run (whose gate
\* passed) holds no verdict, no final message is logged, and the faulting
\* thread is the last one read.
C5_FaultPropagates ==
    faults # <<>> =>
        /\ exc = HWAccessViolationError
        /\ pc = "idle"
        /\ ret = None
        /\ faults = <<reads[Len(reads)]>>
        /\ log = <<MsgStart>>
        /\ Len(reads) = Len(results) + 1
        /\ \A i \in 1..Len(reads) : reads[i] = i - 1
        /\ Len(verdicts) < calls
        /\ (caller = "framework" => gateRet = TRUE /\ overall = None)

C5_Witness ==
    /\ faults = <<1>>
    /\ exc = HWAccessViolationError
    /\ caller = "framework"
    /\ nthreads = 3
    /\ Len(results) = 1
    /\ reads = <<0, 1>>

\* C6: a finished framework run holds one of the five verdicts, or ended in
\* HWAccessViolationError from a per-thread read after the probe passed.
C6_VerdictOrAccessError ==
    (pc = "idle" /\ caller = "framework") =>
        \/ (overall \in Verdicts /\ exc = None)
        \/ (overall = None /\ exc = HWAccessViolationError /\ probe = "ok" /\ faults # <<>>)

\* C7: with the registers and the thread count fixed, all the calls of
\* check_SMM_Code_Chk_En that return, return the same verdict, whatever
\* is_supported calls come between them.
C7_Idempotent ==
    \A i, j \in 1..Len(verdicts) : verdicts[i] = verdicts[j]

C7_Witness ==
    /\ Len(verdicts) = 2
    /\ probes = 1
    /\ selfRes = NOTAPPLICABLE
    /\ caller = "direct"
    /\ Returned

\* C8: at the comparison step every thread index 0..N-1 has been read
\* exactly once, in order, and results has N entries, entry i being the
\* verdict of the register of thread i.
C8_Exhaustive ==
    pc = "compare" =>
        /\ Len(results) = nthreads
        /\ Len(reads) = nthreads
        /\ \A i \in 1..Len(reads) : reads[i] = i - 1
        /\ \A i \in 1..Len(results) :
               results[i] = _check_SMM_Code_Chk_En(msr[i - 1])

\* a disagreement is visible after the first two of three threads
C8_Witness ==
    /\ pc = "compare"
    /\ nthreads = 3
    /\ results[1] # results[2]
    /\ Len(results) = 3

\* C9: no per-thread result is ERROR or NOTAPPLICABLE, so a returned ERROR
\* comes with two per-thread results that differ and a unanimous call never
\* returns ERROR.
C9_ErrorOnlyFromDisagreement ==
    /\ \A i \in 1..Len(results) : results[i] \in {PASSED, FAILED, WARNING}
    /\ (Returned /\ ret = ERROR =>
            \E i, j \in 1..Len(results) : results[i] # results[j])
    /\ (Returned /\ (\A i, j \in 1..Len(results) : results[i] = results[j]) =>
            ret # ERROR)

C9_Witness ==
    /\ Returned
    /\ ret = ERROR
    /\ nthreads = 2

\* The messages of the last call, as a set.
Logged == {log[i] : i \in 1..Len(log)}

\* C10: the passed-check message is logged only when PASSED is returned,
\* and when FAILED is returned the failed-check message "enabled but not
\* locked down" is logged and the passed-check message is not.
C10_LogAgrees ==
    Returned =>
        /\ (MsgLocked \in Logged => ret = PASSED)
        /\ (ret = FAILED => MsgNotLocked \in Logged /\ MsgLocked \notin Logged)

TypeOK ==
    /\ nthreads \in 0..MaxThreads
    /\ pc \in {"idle", "supported", "loop", "compare"}
    /\ ret \in Verdicts \cup {None}
    /\ exc \in {None, HWAccessViolationError, IndexError}
    /\ selfRes \in {None, NOTAPPLICABLE}
    /\ Len(faults) <= 1
====
